---- MODULE Spec2Model ----
(***************************************************************************)
(* A model of archiveallthethings.py: the Thingiverse archiver.            *)
(*                                                                         *)
(* download_thing (archiveItem) and download_user_things (archiveAccount)  *)
(* are modelled statement group by statement group; every remote call and  *)
(* every file write is a step of its own, so that an abrupt termination    *)
(* of the process can fall between any two of them.                        *)
(*                                                                         *)
(* Strings are sequences of one-character strings.                         *)
(***************************************************************************)
EXTENDS Integers, Sequences, FiniteSets, TLC

----------------------------------------------------------------------------
(* Bounds of the model *)

\* number of revisions the remote item goes through
MaxRev == 2

\* number of remote endpoints that are unreliable in one behaviour
MaxFaults == 1

\* number of full pages the listing of an account can have
MaxFullPages == 2

\* number of items of a last, short page
ShortPage == 12

\* the item records 1..MaxFlaky and the last one of an account are the ones
\* that can be unavailable
MaxFlaky == 1

\* length of the varying end of a name given to sanitize_filename
MaxTail == 3

\* number of size variants an image record carries
MaxSizes == 2

----------------------------------------------------------------------------
(* sanitize_filename *)

\* the grave accent, which a TLA+ string literal cannot hold
BackTick == "grave"

\* the characters re.sub removes in directory / image mode (line 55)
StripChars ==
  {"<", ">", ":", "\"", "/", "\\", "|", "?", "*", ",", ";", "!", "@", "#",
   "$", "%", "^", "&", "(", ")", "+", "=", "[", "]", "{", "}", "'", BackTick, "~"}

\* the characters re.sub replaces by "_" in generic mode (line 60)
InvalidChars == {"<", ">", ":", "\"", "/", "\\", "|", "?", "*"}

\* the characters str.strip(' .') removes at both ends (line 62)
TrimChars == {" ", "."}

\* the length limit of a sanitized name (line 64)
NameLimit == 200

UpperCase == <<"A", "B", "C", "D", "E", "F", "G", "H", "I", "J", "K", "L", "M",
               "N", "O", "P", "Q", "R", "S", "T", "U", "V", "W", "X", "Y", "Z">>
LowerCase == <<"a", "b", "c", "d", "e", "f", "g", "h", "i", "j", "k", "l", "m",
               "n", "o", "p", "q", "r", "s", "t", "u", "v", "w", "x", "y", "z">>

\* str.lower() on one character
LowerChar(c) ==
  IF \E k \in 1..26 : UpperCase[k] = c
  THEN LowerCase[CHOOSE k \in 1..26 : UpperCase[k] = c]
  ELSE c

\* str.lower()
Lower(s) == [k \in 1..Len(s) |-> LowerChar(s[k])]

\* re.sub(r'[...]', '', name)
RemoveChars(s, set) == SelectSeq(s, LAMBDA c : c \notin set)

\* re.sub(r'[...]', '_', name) and name.replace(' ', '_')
ReplaceChars(s, set) == [k \in 1..Len(s) |-> IF s[k] \in set THEN "_" ELSE s[k]]

RECURSIVE LStrip(_, _)
LStrip(s, set) ==
  IF s # <<>> /\ Head(s) \in set THEN LStrip(Tail(s), set) ELSE s

RECURSIVE RStrip(_, _)
RStrip(s, set) ==
  IF s # <<>> /\ s[Len(s)] \in set THEN RStrip(SubSeq(s, 1, Len(s) - 1), set) ELSE s

\* str.strip(chars)
Strip(s, set) == RStrip(LStrip(s, set), set)

\* the cut one character too late
Truncate_OffByOne(s) == IF Len(s) > NameLimit THEN SubSeq(s, 1, NameLimit + 1) ELSE s

\* name[:200]
Truncate(s) == IF Len(s) > NameLimit THEN SubSeq(s, 1, NameLimit) ELSE s

\* sanitize_filename(name, for_directory, for_image)
sanitize_filename(name, for_directory, for_image) ==
  LET cleaned ==
        IF for_directory \/ for_image
        THEN Lower(ReplaceChars(RemoveChars(name, StripChars), {" "}))
        ELSE ReplaceChars(name, InvalidChars)
  IN  Truncate(Strip(cleaned, TrimChars))

----------------------------------------------------------------------------
(* What the remote service serves *)

\* the three display names the remote gives its things, by thing id
ThingNames ==
  << <<"C", "u", "p", "!">>, <<"c", "u", "p">>, <<"B", "o", "x", ".">> >>

ThingName(id) == ThingNames[((id - 1) % Len(ThingNames)) + 1]

\* an absent (None) or empty value: falsy in Python
None == <<>>

\* the 'modified' field of revision rev of an item
Timestamp(rev) == <<"t", rev>>

\* GET /things/{id}: the item record
ThingRecord(id, r) == [id |-> id, name |-> ThingName(id), modified |-> r.modified]

\* GET /things/{id}/files: one file with a download_url, one with no URL at
\* all, one with a public_url only whose name sanitizes to that of the first
RemoteFiles ==
  << [name |-> <<"a", ":", "b">>, download_url |-> <<"/", "d", "/", "1">>,
      public_url |-> None],
     [name |-> <<"n", "o">>, download_url |-> None, public_url |-> None],
     [name |-> <<"a", "/", "b">>, download_url |-> None,
      public_url |-> <<"/", "p", "/", "3">>] >>

\* GET /things/{id}/images: one image with no URL at all, one with size
\* variants (thumb listed before display)
RemoteImages ==
  << [name |-> <<"n", "o">>, sizes |-> <<>>, url |-> None],
     [name |-> <<"C", "o", "v">>,
      sizes |-> << [type |-> "thumb", url |-> <<"/", "t", ".", "g", "i", "f">>],
                   [type |-> "display", url |-> <<"/", "x", ".", "P", "N", "G">>] >>,
      url |-> None] >>

\* GET /things/{id}/derivatives, /copies, /comments
RemoteList(cat) ==
  CASE cat = "files" -> RemoteFiles
    [] cat = "images" -> RemoteImages
    [] cat = "derivatives" -> << [name |-> "remix1"] >>
    [] cat = "makes" -> << [name |-> "make1"] >>
    [] cat = "comments" -> << [body |-> "c1"], [body |-> "c2"] >>

\* the sub-resource categories, in the order download_thing fetches them
Categories == <<"files", "images", "derivatives", "makes", "comments">>

AssetCategories == {"files", "images"}

----------------------------------------------------------------------------
(* Naming and URL resolution of assets *)

\* download_url = file_info.get('download_url') or file_info.get('public_url')
FileUrl(file_info) ==
  IF file_info.download_url # None THEN file_info.download_url
  ELSE file_info.public_url

\* the first size of the given type that has a url, or None
SizeUrl(sizes, size_pref) ==
  LET hits == {k \in 1..Len(sizes) :
                 sizes[k].type = size_pref /\ sizes[k].url # None}
  IN  IF hits = {} THEN None
      ELSE sizes[CHOOSE k \in hits : \A j \in hits : k <= j].url

\* the first listed variant of one of the three types that has a url
ImageUrl_FirstListed(img) ==
  LET hits == {k \in 1..Len(img.sizes) :
                 /\ img.sizes[k].type \in {"display", "preview", "thumb"}
                 /\ img.sizes[k].url # None}
  IN  IF hits = {} THEN img.url
      ELSE img.sizes[CHOOSE k \in hits : \A j \in hits : k <= j].url

\* prefer display, then preview, then thumb; fall back to the direct url
ImageUrl(img) ==
  LET d == SizeUrl(img.sizes, "display")
      p == SizeUrl(img.sizes, "preview")
      t == SizeUrl(img.sizes, "thumb")
  IN  IF d # None THEN d
      ELSE IF p # None THEN p
      ELSE IF t # None THEN t
      ELSE img.url

\* index of the last occurrence of a character of set in s, 0 if none
LastIndex(s, set) ==
  LET hits == {k \in 1..Len(s) : s[k] \in set}
  IN  IF hits = {} THEN 0 ELSE CHOOSE k \in hits : \A j \in hits : j <= k

\* index of the first occurrence of a character of set in s, Len(s)+1 if none
FirstIndex(s, set) ==
  LET hits == {k \in 1..Len(s) : s[k] \in set}
  IN  IF hits = {} THEN Len(s) + 1 ELSE CHOOSE k \in hits : \A j \in hits : k <= j

\* urlparse(url).path, for a URL given from its path on
UrlPath(url) == SubSeq(url, 1, FirstIndex(url, {"?", "#"}) - 1)

\* os.path.splitext(p)[1]: from the last dot of the last path component,
\* unless only dots precede it there
SplitExt(p) ==
  LET sep == LastIndex(p, {"/"})
      dot == LastIndex(p, {"."})
  IN  IF dot > sep /\ \E k \in (sep + 1)..(dot - 1) : p[k] # "."
      THEN SubSeq(p, dot, Len(p))
      ELSE <<>>

valid_extensions ==
  { <<".", "j", "p", "g">>, <<".", "j", "p", "e", "g">>, <<".", "p", "n", "g">>,
    <<".", "g", "i", "f">>, <<".", "b", "m", "p">>, <<".", "w", "e", "b", "p">>,
    <<".", "s", "v", "g">> }

\* the extension of the URL compared as it is spelled
ImageSafeName_CaseSensitive(img, download_url) ==
  LET safe_name == sanitize_filename(img.name, FALSE, TRUE)
      url_ext == SplitExt(UrlPath(download_url))
      current_ext == Lower(SplitExt(safe_name))
  IN  IF current_ext \notin valid_extensions
      THEN safe_name \o (IF url_ext \in valid_extensions THEN url_ext
                         ELSE <<".", "j", "p", "g">>)
      ELSE safe_name

\* the on-disk name of an image that has the download URL download_url
ImageSafeName(img, download_url) ==
  LET safe_name == sanitize_filename(img.name, FALSE, TRUE)
      url_ext == Lower(SplitExt(UrlPath(download_url)))
      current_ext == Lower(SplitExt(safe_name))
  IN  IF current_ext \notin valid_extensions
      THEN safe_name \o (IF url_ext \in valid_extensions THEN url_ext
                         ELSE <<".", "j", "p", "g">>)
      ELSE safe_name

\* the download URL of an asset record of category cat
AssetUrl(cat, rec) == IF cat = "files" THEN FileUrl(rec) ELSE ImageUrl(rec)

\* the name of its file under files/ or images/
AssetName(cat, rec) ==
  IF cat = "files" THEN sanitize_filename(rec.name, FALSE, FALSE)
  ELSE ImageSafeName(rec, ImageUrl(rec))

\* the record as the Manifest holds it: an image that has a download URL
\* carries its _safe_name
Recorded(cat, rec) ==
  IF cat = "images"
  THEN [name |-> rec.name, sizes |-> rec.sizes, url |-> rec.url,
        safe_name |-> IF ImageUrl(rec) # None
                      THEN ImageSafeName(rec, ImageUrl(rec)) ELSE None]
  ELSE rec

RecordedList(cat, list) == [k \in 1..Len(list) |-> Recorded(cat, list[k])]

\* the names a file of category cat can have on disk
AssetNames(cat) ==
  {AssetName(cat, RemoteList(cat)[k]) :
     k \in {j \in 1..Len(RemoteList(cat)) : AssetUrl(cat, RemoteList(cat)[j]) # None}}

FileNames == AssetNames("files")

ImageNames == AssetNames("images")

NamesOf(cat) == IF cat = "files" THEN FileNames ELSE ImageNames

\* line 409: thing.get('name', f'thing_{thing_id}')
thing_name(thing, thing_id) ==
  IF thing.has_name THEN thing.name
  ELSE <<"t", "h", "i", "n", "g", "_">> \o thing_id

\* line 413: safe_name = sanitize_filename(thing_name, for_directory=True),
\* the name of the output directory under the output root
safe_name(name) == sanitize_filename(name, TRUE, FALSE)

\* the output directories: sanitize_filename(thing_name, for_directory=True)
DirName(id) == sanitize_filename(ThingName(id), TRUE, FALSE)

DirNames == {DirName(id) : id \in 1..Len(ThingNames)}

----------------------------------------------------------------------------
(* State *)

VARIABLES
  remote,   \* the remote service: the 'modified' field its items carry
  faulty,   \* the remote endpoints that may fail when called
  disk,     \* the output root: one record per output directory
  proc,     \* the running process: mode, arguments, exit code
  pc,       \* the statement the process is at; "idle" when none runs
  fr,       \* the locals of download_thing
  calls,    \* the remote calls of the current download_thing call, in order
  ret,      \* how the last download_thing call ended
  batch,    \* the locals of download_user_things and get_user_things
  pages,    \* the listing requests of get_user_things and its sleeps, in order
  trace,    \* the download_thing calls of the current process, how each
            \* ended, and the sleeps between them, in order
  pure      \* a call of one of the naming functions: its arguments, its result

vars == <<remote, faulty, disk, proc, pc, fr, calls, ret, batch, pages, trace, pure>>

Endpoints == {"thing", "files", "images", "derivatives", "makes", "comments",
              "download", "listing", "docs", "record"}

\* the content of a file under files/ or images/
Absent == [st |-> "absent", src |-> 0]
Partial == [st |-> "partial", src |-> 0]
\* the complete bytes of asset number src of its list
Full(src) == [st |-> "full", src |-> src]

NoThing == [id |-> 0, name |-> None, modified |-> None]

EmptyLists == [cat \in {Categories[k] : k \in 1..Len(Categories)} |-> <<>>]

\* metadata.json: absent, cut short (no valid JSON), or a complete document
NoManifest == [st |-> "absent", thing |-> NoThing, lists |-> EmptyLists]
PartialManifest == [st |-> "partial", thing |-> NoThing, lists |-> EmptyLists]
\* metadata.json holding bytes that are no UTF-8 text
UndecodableManifest ==
  [st |-> "undecodable", thing |-> NoThing, lists |-> EmptyLists]
FullManifest(thing, lists) == [st |-> "full", thing |-> thing, lists |-> lists]

EmptyDir ==
  [exists |-> FALSE,
   manifest |-> NoManifest,
   files |-> [n \in FileNames |-> Absent],
   images |-> [n \in ImageNames |-> Absent],
   docs |-> 0]

NoFrame ==
  [thing_id |-> 0, thing |-> NoThing, output_dir |-> None,
   existing_metadata |-> NoManifest, lists |-> EmptyLists, c |-> 0, i |-> 0]

NoRet == [kind |-> "none", exc |-> "none", value |-> None]

NoProc == [mode |-> "none", force |-> FALSE, throttle |-> 0, exit |-> "none"]

NoBatch == [things |-> <<>>, page |-> 0, i |-> 0, downloaded |-> <<>>]

Event(ev, n) == [ev |-> ev, n |-> n]

\* an item carries no 'modified' field, or the timestamp of its revision;
\* the account lists count things
Remotes(counts) ==
  [modified : {None} \cup {Timestamp(rev) : rev \in 1..MaxRev}, count : counts]

\* the endpoints download_thing calls, and the rendering of the documents
ItemEndpoints == {"thing", "files", "images", "derivatives", "makes", "comments",
                  "download", "docs"}

FaultSets(endpoints) == {f \in SUBSET endpoints : Cardinality(f) <= MaxFaults}

\* a remote call and how it was answered
Call(op, cat, k, res) == [op |-> op, cat |-> cat, k |-> k, res |-> res]

\* requests.get + raise_for_status + json(): parsed data, an HTTPError, or
\* another transport error
api_get(endpoint) ==
  IF endpoint \in faulty THEN {"ok", "http", "conn"} ELSE {"ok"}

\* the item records that can be unavailable when "thing" is faulty
Flaky(id) == id <= MaxFlaky \/ id = remote.count

----------------------------------------------------------------------------
(* download_thing *)

\* load_existing_metadata: the parsed document, or None when the file is
\* missing or json.load fails
load_existing_metadata(dir) ==
  IF dir.manifest.st = "full" THEN dir.manifest ELSE NoManifest

\* lines 379-383: reading the file raises an error that is neither a
\* JSONDecodeError nor an IOError: the UnicodeDecodeError of bytes that are
\* no UTF-8 text, which the except clause lets through
load_raises(dir) == dir.manifest.st = "undecodable"

\* the short-circuit test with the comparison inverted
Unchanged_Inverted(existing_metadata, thing, force) ==
  /\ existing_metadata.st = "full"
  /\ ~force
  /\ existing_metadata.thing.modified # None
  /\ thing.modified # None
  /\ existing_metadata.thing.modified # thing.modified

\* lines 427-434: the short-circuit test
Unchanged(existing_metadata, thing, force) ==
  /\ existing_metadata.st = "full"
  /\ ~force
  /\ existing_metadata.thing.modified # None
  /\ thing.modified # None
  /\ existing_metadata.thing.modified = thing.modified

\* the existence test passing over complete files only
SkipExisting_OnlyComplete(content, force) == content.st = "full" /\ ~force

\* the existence test without 'and not force'
SkipExisting_IgnoreForce(content, force) == content.st # "absent"

\* lines 449 and 505: dest.exists() and not force
SkipExisting(content, force) == content.st # "absent" /\ ~force

\* 'except Exception' takes every error alike
Caught(outcome) == IF outcome = "ok" THEN "ok" ELSE "failed"

\* a JSON null where the record should carry a string
Null == <<"null">>

\* a file or image record with a download URL and a null name:
\* sanitize_filename(None) raises TypeError in re.sub (lines 447, 491)
BadRecord(cat) ==
  IF cat = "files"
  THEN [name |-> Null, download_url |-> <<"/", "d", "/", "0">>, public_url |-> None]
  ELSE [name |-> Null, sizes |-> <<>>, url |-> <<"/", "i", "/", "0">>]

\* processing the record raises outside the guarded download_file call
Malformed(rec) == rec.name = Null

\* the list the remote serves: when its records are unreliable, the list of
\* files or images carries a malformed record in second place
ServedList(cat) ==
  IF "record" \in faulty /\ cat \in AssetCategories
  THEN <<RemoteList(cat)[1], BadRecord(cat)>> \o Tail(RemoteList(cat))
  ELSE RemoteList(cat)

\* what a try block around a list fetch leaves in the variable
Fetched(cat, outcome) == IF outcome = "ok" THEN ServedList(cat) ELSE <<>>

\* download_thing is entered
Enter(thing_id) ==
  /\ fr' = [NoFrame EXCEPT !.thing_id = thing_id]
  /\ calls' = <<>>
  /\ ret' = NoRet
  /\ pc' = "dt_get_thing"
  /\ trace' = Append(trace, Event("archive", thing_id))

\* download_thing returns value, or raises exc
Leave(kind, exc, value) ==
  /\ pc' = "dt_end"
  /\ ret' = [kind |-> kind, exc |-> exc, value |-> value]
  /\ trace' = Append(trace, Event(kind, fr.thing_id))

\* get_thing wrapped in a try block like the list fetches: a failure leaves
\* an empty record and download_thing goes on
DT_GetThing_Swallow ==
  /\ pc = "dt_get_thing"
  /\ \E outcome \in (IF Flaky(fr.thing_id) THEN api_get("thing") ELSE {"ok"}) :
       /\ calls' = Append(calls, Call("get", "thing", 0, outcome))
       /\ fr' = [fr EXCEPT !.thing = IF outcome = "ok"
                                     THEN ThingRecord(fr.thing_id, remote)
                                     ELSE [NoThing EXCEPT !.name = ThingName(1)]]
       /\ pc' = "dt_prepare"
  /\ UNCHANGED <<remote, faulty, disk, proc, batch, ret, trace, pages, pure>>

\* line 408: thing = get_thing(thing_id, token); a failure propagates
DT_GetThing ==
  /\ pc = "dt_get_thing"
  /\ \E outcome \in (IF Flaky(fr.thing_id) THEN api_get("thing") ELSE {"ok"}) :
       /\ calls' = Append(calls, Call("get", "thing", 0, outcome))
       /\ IF outcome = "ok"
          THEN /\ fr' = [fr EXCEPT !.thing = ThingRecord(fr.thing_id, remote)]
               /\ pc' = "dt_prepare"
               /\ UNCHANGED <<ret, trace>>
          ELSE /\ fr' = fr
               /\ Leave("raise", outcome, None)
  /\ UNCHANGED <<remote, faulty, disk, proc, batch, pages, pure>>

\* lines 409-434: the directories, the existing Manifest, the short-circuit
DT_Prepare ==
  /\ pc = "dt_prepare"
  /\ LET output_dir == safe_name(fr.thing.name)
         existing_metadata == load_existing_metadata(disk[output_dir])
     IN  /\ disk' = [disk EXCEPT ![output_dir].exists = TRUE]
         /\ IF load_raises(disk[output_dir])
            THEN /\ Leave("raise", "decode", None)
                 /\ fr' = [fr EXCEPT !.output_dir = output_dir]
            ELSE IF Unchanged(existing_metadata, fr.thing, proc.force)
            THEN /\ Leave("return", "none", output_dir)
                 /\ fr' = [fr EXCEPT !.output_dir = output_dir,
                                     !.existing_metadata = existing_metadata]
            ELSE /\ pc' = "dt_get_list"
                 /\ fr' = [fr EXCEPT !.output_dir = output_dir,
                                     !.existing_metadata = existing_metadata,
                                     !.c = 1]
                 /\ UNCHANGED <<ret, trace>>
  /\ UNCHANGED <<remote, faulty, proc, calls, batch, pages, pure>>

\* the list fetches without their try blocks: a failure propagates
DT_GetList_Unguarded ==
  /\ pc = "dt_get_list"
  /\ LET cat == Categories[fr.c]
     IN  \E outcome \in api_get(cat) :
              /\ calls' = Append(calls, Call("get", cat, 0, outcome))
              /\ IF outcome = "ok"
                 THEN /\ fr' = [fr EXCEPT !.lists[cat] = RemoteList(cat),
                                          !.i = 1,
                                          !.c = IF cat \in AssetCategories
                                                THEN @ ELSE @ + 1]
                      /\ pc' = IF cat \in AssetCategories THEN "dt_asset"
                               ELSE IF fr.c = Len(Categories) THEN "dt_manifest_open"
                               ELSE "dt_get_list"
                      /\ UNCHANGED <<ret, trace>>
                 ELSE /\ fr' = fr
                      /\ Leave("raise", outcome, None)
  /\ UNCHANGED <<remote, faulty, disk, proc, batch, pages, pure>>

\* lines 439, 466, 522, 531, 540 with their except clauses: the list of the
\* category, or [] when the fetch fails
DT_GetList ==
  /\ pc = "dt_get_list"
  /\ LET cat == Categories[fr.c]
     IN  \E outcome \in api_get(cat) :
              /\ calls' = Append(calls, Call("get", cat, 0, Caught(outcome)))
              /\ fr' = [fr EXCEPT !.lists[cat] = Fetched(cat, outcome),
                                  !.i = 1,
                                  !.c = IF cat \in AssetCategories /\ outcome = "ok"
                                        THEN @ ELSE @ + 1]
              /\ pc' = IF cat \in AssetCategories /\ outcome = "ok" THEN "dt_asset"
                       ELSE IF fr.c = Len(Categories) THEN "dt_manifest_open"
                       ELSE "dt_get_list"
  /\ UNCHANGED <<remote, faulty, disk, proc, ret, batch, trace, pages, pure>>

\* the rounds of the loop from round i on that download nothing: the asset
\* has no download URL (lines 457, 513) or its file exists (lines 449, 505);
\* a round that raises ends them
RECURSIVE PassOver(_, _, _, _, _)
PassOver(cat, list, i, dir, force) ==
  IF i > Len(list) THEN i
  ELSE IF Malformed(list[i]) THEN i
  ELSE IF AssetUrl(cat, list[i]) = None THEN PassOver(cat, list, i + 1, dir, force)
  ELSE IF SkipExisting(dir[cat][AssetName(cat, list[i])], force)
       THEN PassOver(cat, list, i + 1, dir, force)
  ELSE i

\* download_file without its own try block: the failure is caught by the
\* except clause of the category, which empties the list and ends the loop
DT_Asset_Abort ==
  /\ pc = "dt_asset"
  /\ LET cat == Categories[fr.c]
         list == fr.lists[cat]
         i == PassOver(cat, list, fr.i, disk[fr.output_dir], proc.force)
     IN  IF i > Len(list)
         THEN /\ fr' = [fr EXCEPT !.c = @ + 1, !.i = i]
              /\ pc' = "dt_get_list"
              /\ UNCHANGED <<disk, calls>>
         ELSE IF Malformed(list[i])
         THEN /\ fr' = [fr EXCEPT !.lists[cat] = <<>>, !.c = @ + 1, !.i = i]
              /\ pc' = "dt_get_list"
              /\ UNCHANGED <<disk, calls>>
         ELSE \E outcome \in (IF "download" \in faulty
                               THEN {"ok", "http"} ELSE {"ok"}) :
                /\ calls' = Append(calls, Call("download", cat, i, outcome))
                /\ IF outcome = "ok"
                   THEN /\ disk' = [disk EXCEPT
                                      ![fr.output_dir][cat][AssetName(cat, list[i])]
                                         = Partial]
                        /\ pc' = "dt_write"
                        /\ fr' = [fr EXCEPT !.i = i]
                   ELSE /\ fr' = [fr EXCEPT !.lists[cat] = <<>>, !.c = @ + 1,
                                            !.i = i]
                        /\ pc' = "dt_get_list"
                        /\ UNCHANGED disk
  /\ UNCHANGED <<remote, faulty, proc, ret, batch, trace, pages, pure>>

\* the error of a record caught inside the loop: the record is passed over
\* and the loop goes on with the list as fetched
DT_Asset_SkipRecord ==
  /\ pc = "dt_asset"
  /\ LET cat == Categories[fr.c]
         list == fr.lists[cat]
         i == PassOver(cat, list, fr.i, disk[fr.output_dir], proc.force)
     IN  IF i > Len(list)
         THEN /\ fr' = [fr EXCEPT !.c = @ + 1, !.i = i]
              /\ pc' = "dt_get_list"
              /\ UNCHANGED <<disk, calls>>
         ELSE IF Malformed(list[i])
         THEN /\ fr' = [fr EXCEPT !.i = i + 1]
              /\ UNCHANGED <<pc, disk, calls>>
         ELSE \E outcome \in (IF "download" \in faulty
                               THEN {"ok", "http"} ELSE {"ok"}) :
                /\ calls' = Append(calls, Call("download", cat, i, outcome))
                /\ IF outcome = "ok"
                   THEN /\ disk' = [disk EXCEPT
                                      ![fr.output_dir][cat][AssetName(cat, list[i])]
                                         = Partial]
                        /\ pc' = "dt_write"
                        /\ fr' = [fr EXCEPT !.i = i]
                   ELSE /\ fr' = [fr EXCEPT !.i = i + 1]
                        /\ UNCHANGED <<pc, disk>>
  /\ UNCHANGED <<remote, faulty, proc, ret, batch, trace, pages, pure>>

\* lines 442-461 and 469-517: the loop over the files or images up to the
\* next download: requests.get and open(dest, 'wb') of download_file; a
\* record whose processing raises is caught by the except clause of the
\* category (lines 459-461, 515-517), which empties the list
DT_Asset ==
  /\ pc = "dt_asset"
  /\ LET cat == Categories[fr.c]
         list == fr.lists[cat]
         i == PassOver(cat, list, fr.i, disk[fr.output_dir], proc.force)
     IN  IF i > Len(list)
         THEN /\ fr' = [fr EXCEPT !.c = @ + 1, !.i = i]
              /\ pc' = "dt_get_list"
              /\ UNCHANGED <<disk, calls>>
         ELSE IF Malformed(list[i])
         THEN /\ fr' = [fr EXCEPT !.lists[cat] = <<>>, !.c = @ + 1, !.i = i]
              /\ pc' = "dt_get_list"
              /\ UNCHANGED <<disk, calls>>
         ELSE \E outcome \in (IF "download" \in faulty
                               THEN {"ok", "http"} ELSE {"ok"}) :
                /\ calls' = Append(calls, Call("download", cat, i, outcome))
                /\ IF outcome = "ok"
                   THEN /\ disk' = [disk EXCEPT
                                      ![fr.output_dir][cat][AssetName(cat, list[i])]
                                         = Partial]
                        /\ pc' = "dt_write"
                        /\ fr' = [fr EXCEPT !.i = i]
                   ELSE /\ fr' = [fr EXCEPT !.i = i + 1]
                        /\ UNCHANGED <<pc, disk>>
  /\ UNCHANGED <<remote, faulty, proc, ret, batch, trace, pages, pure>>

\* lines 91-92 with the except clauses of lines 455 and 511: the chunks are
\* written; the stream may break before the last one
DT_Write ==
  /\ pc = "dt_write"
  /\ LET cat == Categories[fr.c]
         dest == AssetName(cat, fr.lists[cat][fr.i])
     IN  \E outcome \in (IF "download" \in faulty THEN {"ok", "cut"} ELSE {"ok"}) :
           /\ disk' = [disk EXCEPT ![fr.output_dir][cat][dest] =
                         IF outcome = "ok" THEN Full(fr.i) ELSE Partial]
           /\ calls' = [calls EXCEPT ![Len(calls)].res = outcome]
  /\ fr' = [fr EXCEPT !.i = @ + 1]
  /\ pc' = "dt_asset"
  /\ UNCHANGED <<remote, faulty, proc, ret, batch, trace, pages, pure>>

\* line 549: open(metadata_path, "w") truncates metadata.json
DT_ManifestOpen ==
  /\ pc = "dt_manifest_open"
  /\ disk' = [disk EXCEPT ![fr.output_dir].manifest = PartialManifest]
  /\ pc' = "dt_manifest_dump"
  /\ UNCHANGED <<remote, faulty, proc, fr, calls, ret, batch, trace, pages, pure>>

\* the document written without the 'modified' field of the item
DT_ManifestDump_NoTimestamp ==
  /\ pc = "dt_manifest_dump"
  /\ disk' = [disk EXCEPT ![fr.output_dir].manifest =
                FullManifest([fr.thing EXCEPT !.modified = None],
                             [cat \in DOMAIN fr.lists |->
                                RecordedList(cat, fr.lists[cat])])]
  /\ pc' = "dt_docs"
  /\ UNCHANGED <<remote, faulty, proc, fr, calls, ret, batch, trace, pages, pure>>

\* lines 550-557: json.dump writes the document and the file is closed
DT_ManifestDump ==
  /\ pc = "dt_manifest_dump"
  /\ disk' = [disk EXCEPT ![fr.output_dir].manifest =
                FullManifest(fr.thing,
                             [cat \in DOMAIN fr.lists |->
                                RecordedList(cat, fr.lists[cat])])]
  /\ pc' = "dt_docs"
  /\ UNCHANGED <<remote, faulty, proc, fr, calls, ret, batch, trace, pages, pure>>

\* the documents of a directory: none (0), those of thing id, or a README.md
\* that was opened for writing and left unfinished
PartialDocs == 0 - 1

\* lines 559-572: README.md, COMMENTS.md, LICENSE.md; return output_dir. The
\* rendering can raise after README.md is opened (a null description in
\* re.sub, a write error); no except clause is around it
DT_Docs ==
  /\ pc = "dt_docs"
  /\ \E outcome \in (IF "docs" \in faulty THEN {"ok", "render"} ELSE {"ok"}) :
       IF outcome = "ok"
       THEN /\ disk' = [disk EXCEPT ![fr.output_dir].docs = fr.thing.id]
            /\ Leave("return", "none", fr.output_dir)
       ELSE /\ disk' = [disk EXCEPT ![fr.output_dir].docs = PartialDocs]
            /\ Leave("raise", outcome, None)
  /\ UNCHANGED <<remote, faulty, proc, fr, calls, batch, pages, pure>>

DownloadThing ==
  \/ DT_GetThing
  \/ DT_Prepare
  \/ DT_GetList
  \/ DT_Asset
  \/ DT_Write
  \/ DT_ManifestOpen
  \/ DT_ManifestDump
  \/ DT_Docs

----------------------------------------------------------------------------
(* main *)

\* lines 672-685, --thing mode: the token, the output root, download_thing
MainThing ==
  /\ pc = "idle"
  /\ \E force \in BOOLEAN, token \in BOOLEAN :
       IF token
       THEN /\ proc' = [mode |-> "thing", force |-> force, throttle |-> 0,
                        exit |-> "none"]
            /\ Enter(1)
       ELSE /\ proc' = [NoProc EXCEPT !.exit = "1"]
            /\ UNCHANGED <<pc, fr, calls, ret, trace>>
  /\ batch' = NoBatch
  /\ UNCHANGED <<remote, faulty, disk, pages, pure>>

\* the process is gone: its memory with it
Gone ==
  /\ pc' = "idle"
  /\ fr' = NoFrame
  /\ calls' = <<>>
  /\ ret' = NoRet
  /\ batch' = NoBatch
  /\ pages' = <<>>
  /\ trace' = <<>>

\* lines 685-698: download_thing returned, or raised and sys.exit(1)
MainThingExit ==
  /\ pc = "dt_end"
  /\ proc.mode = "thing"
  /\ proc' = [NoProc EXCEPT !.exit = IF ret.kind = "return" THEN "0" ELSE "1"]
  /\ Gone
  /\ UNCHANGED <<remote, faulty, disk, pure>>

\* the operator kills the process, or the machine loses power
Crash ==
  /\ pc # "idle"
  /\ proc' = [NoProc EXCEPT !.exit = "killed"]
  /\ Gone
  /\ UNCHANGED <<remote, faulty, disk, pure>>

\* between two runs the owner edits the item
RemoteUpdate ==
  /\ pc = "idle"
  /\ remote' \in Remotes({0}) \ {remote}
  /\ UNCHANGED <<faulty, disk, proc, pc, fr, calls, ret, batch, trace, pages, pure>>

----------------------------------------------------------------------------
(* get_user_things and download_user_things *)

\* line 25
DEFAULT_THROTTLE_SECONDS == 5

\* line 131
per_page == 30

\* GET /users/{name}/things?page=..&per_page=..: the ids of the page
ListPage(count, page, size) ==
  LET first == (page - 1) * size
      n == IF count - first > size THEN size
           ELSE IF count - first < 0 THEN 0 ELSE count - first
  IN  [k \in 1..n |-> first + k]

\* the loop ending on an empty page only
LastPage_EmptyOnly(result) == result = <<>>

\* lines 137-143: the loop ends on an empty page or on a short one
LastPage(result) == result = <<>> \/ Len(result) < per_page

\* lines 609-611: the sleep after item i of n
SleepAfterItem(i, n, throttle) ==
  IF i < n THEN << Event("sleep", throttle) >> ELSE <<>>

\* lines 672-687, --user mode: the token, the output root,
\* download_user_things and the first statements of get_user_things
MainUser ==
  /\ pc = "idle"
  /\ proc.exit = "none"
  /\ \E force \in BOOLEAN, token \in BOOLEAN, throttle \in {2, DEFAULT_THROTTLE_SECONDS} :
       IF token
       THEN /\ proc' = [mode |-> "user", force |-> force, throttle |-> throttle,
                        exit |-> "none"]
            /\ pc' = "gu_page"
            /\ batch' = [NoBatch EXCEPT !.page = 1]
       ELSE /\ proc' = [NoProc EXCEPT !.exit = "1"]
            /\ UNCHANGED <<pc, batch>>
  /\ UNCHANGED <<remote, faulty, disk, fr, calls, ret, trace, pages, pure>>

\* the loop of get_user_things going on to the items of the pages it has
\* when a later page fails
GU_Page_KeepPartial ==
  /\ pc = "gu_page"
  /\ \E outcome \in api_get("listing") :
       /\ calls' = Append(calls, Call("get", "listing", batch.page, outcome))
       /\ IF outcome = "ok"
          THEN LET result == ListPage(remote.count, batch.page, per_page)
                   things == batch.things \o result
               IN  IF LastPage(result)
                   THEN /\ batch' = [batch EXCEPT !.things = things, !.i = 1]
                        /\ pc' = IF things = <<>> THEN "du_end" ELSE "du_item"
                        /\ pages' = Append(pages, Event("request", batch.page))
                   ELSE /\ batch' = [batch EXCEPT !.things = things, !.page = @ + 1]
                        /\ pc' = "gu_page"
                        /\ pages' = pages \o << Event("request", batch.page),
                                               Event("sleep", DEFAULT_THROTTLE_SECONDS) >>
          ELSE /\ batch' = [batch EXCEPT !.i = 1]
               /\ pc' = IF batch.things = <<>> THEN "du_end" ELSE "du_item"
               /\ pages' = pages \o << Event("request", batch.page),
                                      Event("failed", batch.page) >>
  /\ UNCHANGED <<remote, faulty, disk, proc, fr, ret, trace, pure>>

\* lines 133-148 and 579-589: one round of the loop of get_user_things, and
\* what download_user_things does with its result
GU_Page ==
  /\ pc = "gu_page"
  /\ \E outcome \in api_get("listing") :
       /\ calls' = Append(calls, Call("get", "listing", batch.page, outcome))
       /\ IF outcome = "ok"
          THEN LET result == ListPage(remote.count, batch.page, per_page)
                   things == batch.things \o result
               IN  IF LastPage(result)
                   THEN /\ batch' = [batch EXCEPT !.things = things, !.i = 1]
                        /\ pc' = IF things = <<>> THEN "du_end" ELSE "du_item"
                        /\ pages' = Append(pages, Event("request", batch.page))
                   ELSE /\ batch' = [batch EXCEPT !.things = things, !.page = @ + 1]
                        /\ pc' = "gu_page"
                        /\ pages' = pages \o << Event("request", batch.page),
                                               Event("sleep", DEFAULT_THROTTLE_SECONDS) >>
          ELSE /\ batch' = [batch EXCEPT !.things = <<>>]
               /\ pc' = IF outcome = "http" THEN "du_end" ELSE "du_raise"
               /\ pages' = pages \o << Event("request", batch.page),
                                      Event("failed", batch.page) >>
  /\ UNCHANGED <<remote, faulty, disk, proc, fr, ret, trace, pure>>

\* lines 592-599: the next item is handed to download_thing
DU_Item ==
  /\ pc = "du_item"
  /\ Enter(batch.things[batch.i])
  /\ UNCHANGED <<remote, faulty, disk, proc, batch, pages, pure>>

\* downloaded.append(result) moved out of the try block
DU_AfterThing_AppendAlways ==
  /\ pc = "dt_end"
  /\ proc.mode = "user"
  /\ batch' = [batch EXCEPT
                 !.downloaded = Append(@, DirName(fr.thing_id)),
                 !.i = @ + 1]
  /\ trace' = trace \o SleepAfterItem(batch.i, Len(batch.things), proc.throttle)
  /\ pc' = IF batch.i < Len(batch.things) THEN "du_item" ELSE "du_end"
  /\ UNCHANGED <<remote, faulty, disk, proc, fr, calls, ret, pages, pure>>

\* lines 600-614: download_thing returned or raised; the throttle sleep
DU_AfterThing ==
  /\ pc = "dt_end"
  /\ proc.mode = "user"
  /\ batch' = [batch EXCEPT
                 !.downloaded = IF ret.kind = "return" THEN Append(@, ret.value)
                                ELSE @,
                 !.i = @ + 1]
  /\ trace' = trace \o SleepAfterItem(batch.i, Len(batch.things), proc.throttle)
  /\ pc' = IF batch.i < Len(batch.things) THEN "du_item" ELSE "du_end"
  /\ UNCHANGED <<remote, faulty, disk, proc, fr, calls, ret, pages, pure>>

\* lines 687-698: download_user_things returned, or raised and sys.exit(1)
MainUserExit ==
  /\ pc \in {"du_end", "du_raise"}
  /\ proc' = [NoProc EXCEPT !.exit = IF pc = "du_end" THEN "0" ELSE "1"]
  /\ Gone
  /\ UNCHANGED <<remote, faulty, disk, pure>>

\* the numbers of things an account can have
ListingCounts ==
  {full * per_page + short : full \in 0..MaxFullPages, short \in {0, ShortPage}}

----------------------------------------------------------------------------
(* The naming functions, called on their own *)

\* the characters names are made of: a letter of each case, a space, a dot,
\* a character every mode takes out, a character directory mode strips
Alphabet == {"a", "B", " ", ".", ":", "!"}

\* the strings over Alphabet of length n at most
RECURSIVE Words(_)
Words(n) ==
  IF n = 0 THEN {<<>>}
  ELSE LET w == Words(n - 1)
       IN  w \cup {Append(x, c) : x \in w, c \in Alphabet}

Pad(n) == [k \in 1..n |-> "a"]

\* short names, and names around the length limit
NameInputs == {Pad(n) \o w : n \in {0, NameLimit - 2}, w \in Words(MaxTail)}

Modes == {"generic", "directory", "image"}

\* sanitize_filename called in mode m
Sanitize(x, m) == sanitize_filename(x, m = "directory", m = "image")

\* item records: with a name, or without the 'name' key
ThingInputs ==
  {[has_name |-> TRUE, name |-> w] : w \in Words(MaxTail)}
    \cup {[has_name |-> FALSE, name |-> <<>>]}

SizeTypes == {"display", "preview", "thumb", "large"}

\* the url a size variant of a type carries when it carries one
VariantUrl(type) ==
  CASE type = "display" -> <<"/", "d", ".", "P", "N", "G">>
    [] type = "preview" -> <<"/", "p">>
    [] type = "thumb" -> <<"/", "t", ".", "g", "i", "f", "?", "v", "=", "1", ".", "5">>
    [] type = "large" -> <<"/", "l", ".", "b", "m", "p">>

Variants == {[type |-> t, url |-> u] : t \in SizeTypes, u \in {None}} \cup
            {[type |-> t, url |-> VariantUrl(t)] : t \in SizeTypes}

\* the lists of n size variants at most
RECURSIVE SizeLists(_)
SizeLists(n) ==
  IF n = 0 THEN {<<>>}
  ELSE LET l == SizeLists(n - 1)
       IN  l \cup {Append(x, v) : x \in l, v \in Variants}

ImageNameInputs ==
  { <<"C", "o", "v">>, <<"a", ".", "p", "n", "g">>, <<"!">>, <<"a", ".", "b">> }

DirectUrls == {None, <<"/", "u", ".", "t", "x", "t">>}

ImageInputs == [name : ImageNameInputs, sizes : SizeLists(MaxSizes), url : DirectUrls]

NoImage == [name |-> <<>>, sizes |-> <<>>, url |-> None]

NoPure ==
  [op |-> "none", stage |-> 0, name |-> <<>>, mode |-> "none",
   thing |-> [has_name |-> FALSE, name |-> <<>>], image |-> NoImage,
   out |-> <<>>, again |-> <<>>, url |-> None, issued |-> FALSE]

PureInputs ==
  {[NoPure EXCEPT !.op = "sanitize", !.name = x, !.mode = m] :
     x \in NameInputs, m \in Modes}
    \cup {[NoPure EXCEPT !.op = "directory", !.thing = t] : t \in ThingInputs}
    \cup {[NoPure EXCEPT !.op = "image", !.image = i] : i \in ImageInputs}

\* lines 469-514 for one image over an empty images/ directory: whether the
\* round issues a download
ImageRound(img, force) ==
  LET dir == [images |-> [n \in {AssetName("images", img)} |-> Absent]]
  IN  PassOver("images", <<img>>, 1, dir, force) = 1

Rest == <<remote, faulty, disk, proc, pc, fr, calls, ret, batch, pages, trace>>

\* sanitize_filename(name, mode)
SanitizeName ==
  /\ pure.op = "sanitize"
  /\ pure.stage = 0
  /\ pure' = [pure EXCEPT !.out = Sanitize(pure.name, pure.mode), !.stage = 1]
  /\ UNCHANGED Rest

\* sanitize_filename called on its own result
SanitizeAgain ==
  /\ pure.op = "sanitize"
  /\ pure.stage = 1
  /\ pure' = [pure EXCEPT !.again = Sanitize(pure.out, pure.mode), !.stage = 2]
  /\ UNCHANGED Rest

\* lines 409-414: the name of the output directory of a fetched item
NameDirectory ==
  /\ pure.op = "directory"
  /\ pure.stage = 0
  /\ pure' = [pure EXCEPT !.out = safe_name(thing_name(pure.thing, <<"7">>)),
                          !.stage = 1]
  /\ UNCHANGED Rest

\* lines 469-514: one round of the loop over the images
ResolveImage ==
  /\ pure.op = "image"
  /\ pure.stage = 0
  /\ \E force \in BOOLEAN :
       LET download_url == ImageUrl(pure.image)
       IN  pure' = [pure EXCEPT
                      !.url = download_url,
                      !.out = IF download_url # None
                              THEN ImageSafeName(pure.image, download_url)
                              ELSE None,
                      !.issued = ImageRound(pure.image, force),
                      !.stage = 1]
  /\ UNCHANGED Rest

----------------------------------------------------------------------------
(* Specifications *)

Init ==
  /\ remote \in Remotes({0})
  /\ faulty \in FaultSets(ItemEndpoints)
  /\ disk = [d \in DirNames |-> EmptyDir]
  /\ proc = NoProc
  /\ pc = "idle"
  /\ fr = NoFrame
  /\ calls = <<>>
  /\ ret = NoRet
  /\ batch = NoBatch
  /\ pages = <<>>
  /\ trace = <<>>
  /\ pure = NoPure

Next ==
  \/ MainThing
  \/ MainThingExit
  \/ DownloadThing
  \/ Crash
  \/ RemoteUpdate

Spec == Init /\ [][Next]_vars

\* one run of the account archiver over an empty output root; the items
\* carry no 'modified' field, or all the same one
InitBatch ==
  /\ remote \in [modified : {None, Timestamp(1)}, count : ListingCounts]
  /\ faulty \in FaultSets({"thing", "listing"})
  /\ disk = [d \in DirNames |-> EmptyDir]
  /\ proc = NoProc
  /\ pc = "idle"
  /\ fr = NoFrame
  /\ calls = <<>>
  /\ ret = NoRet
  /\ batch = NoBatch
  /\ pages = <<>>
  /\ trace = <<>>
  /\ pure = NoPure

NextBatch ==
  \/ MainUser
  \/ GU_Page
  \/ DU_Item
  \/ DU_AfterThing
  \/ MainUserExit
  \/ DownloadThing

SpecBatch == InitBatch /\ [][NextBatch]_vars

\* one call of a naming function on arguments drawn from the input sets
InitPure ==
  /\ remote = [modified |-> None, count |-> 0]
  /\ faulty = {}
  /\ disk = [d \in DirNames |-> EmptyDir]
  /\ proc = NoProc
  /\ pc = "idle"
  /\ fr = NoFrame
  /\ calls = <<>>
  /\ ret = NoRet
  /\ batch = NoBatch
  /\ pages = <<>>
  /\ trace = <<>>
  /\ pure \in PureInputs

NextPure ==
  \/ SanitizeName
  \/ SanitizeAgain
  \/ NameDirectory
  \/ ResolveImage

SpecPure == InitPure /\ [][NextPure]_vars

\* the states metadata.json of the item's directory can be found in: the
\* ones earlier runs leave, and a file damaged or written by something else
FoundManifests ==
  {NoManifest, PartialManifest, UndecodableManifest}
    \cup {FullManifest(ThingRecord(1, r), EmptyLists) : r \in Remotes({0})}

\* runs of download_thing over a directory whose metadata.json is found in
\* one of these states, the remote serving well-formed or malformed records
InitFound ==
  /\ remote \in Remotes({0})
  /\ faulty \in FaultSets(ItemEndpoints \cup {"record"})
  /\ \E m \in FoundManifests :
       disk = [d \in DirNames |->
                 IF d = DirName(1)
                 THEN [EmptyDir EXCEPT !.exists = TRUE, !.manifest = m]
                 ELSE EmptyDir]
  /\ proc = NoProc
  /\ pc = "idle"
  /\ fr = NoFrame
  /\ calls = <<>>
  /\ ret = NoRet
  /\ batch = NoBatch
  /\ pages = <<>>
  /\ trace = <<>>
  /\ pure = NoPure

NextFound ==
  \/ MainThing
  \/ MainThingExit
  \/ DownloadThing

SpecFound == InitFound /\ [][NextFound]_vars

----------------------------------------------------------------------------
(* Properties of download_thing, checked under Spec *)

\* the calls of the current download_thing call to one endpoint
CallsOf(op, cat) == {k \in DOMAIN calls : calls[k].op = op /\ calls[k].cat = cat}

\* the fetch of the list of category cat failed in the current call
FetchFailed(cat) == \E k \in CallsOf("get", cat) : calls[k].res # "ok"

CategorySet == {Categories[c] : c \in 1..Len(Categories)}

\* the Manifest of the directory of the item that was fetched
ManifestOf(thing) == disk[sanitize_filename(thing.name, TRUE, FALSE)].manifest

\* the step past the Manifest check finds a Manifest with the timestamp of
\* the fetched item, and force is off
SameTimestamp ==
  /\ pc = "dt_prepare"
  /\ ~proc.force
  /\ ManifestOf(fr.thing).st = "full"
  /\ ManifestOf(fr.thing).thing.modified # None
  /\ ManifestOf(fr.thing).thing.modified = fr.thing.modified

\* C1: when download_thing runs without force and finds a Manifest whose
\* stored 'modified' equals the 'modified' of the item just fetched, its next
\* step ends the call: it returns the existing directory, the item fetch is
\* the only remote call it made, and nothing on disk is changed.
C1_IncrementalSkip ==
  [][ (SameTimestamp /\ pc' # "idle")
        => /\ pc' = "dt_end"
           /\ ret'.kind = "return"
           /\ ret'.value = sanitize_filename(fr.thing.name, TRUE, FALSE)
           /\ calls' = << Call("get", "thing", 0, "ok") >>
           /\ disk' = disk ]_vars

\* a run without force has short-circuited on an existing Manifest
C1_Witness ==
  /\ pc = "dt_end"
  /\ ~proc.force
  /\ ret.kind = "return"
  /\ Len(calls) = 1
  /\ disk[ret.value].manifest.st = "full"
  /\ disk[ret.value].manifest.thing.modified = fr.thing.modified

\* the Manifest of the current call is on disk
ManifestWritten == pc = "dt_docs" \/ (pc = "dt_end" /\ Len(calls) > 1)

\* C2: the error of a failed fetch of a sub-resource list is never raised by
\* download_thing; once the Manifest is written every category has been requested, a
\* category whose fetch failed is recorded as an empty list and every other
\* category is recorded with the list that was fetched.
C2_CategoryFaultIsolation ==
  /\ \A cat \in CategorySet :
       FetchFailed(cat) => (ret.kind = "raise" => ret.exc = "render")
  /\ ManifestWritten =>
       LET m == disk[fr.output_dir].manifest
       IN  /\ m.st = "full"
           /\ \A cat \in CategorySet :
                /\ CallsOf("get", cat) # {}
                /\ m.lists[cat] = IF FetchFailed(cat) THEN <<>>
                                  ELSE RecordedList(cat, RemoteList(cat))

\* the Manifest was written after the fetch of the comments failed, and it
\* lists the files and the images
C2_Witness ==
  /\ pc = "dt_docs"
  /\ FetchFailed("comments")
  /\ disk[fr.output_dir].manifest.lists["comments"] = <<>>
  /\ disk[fr.output_dir].manifest.lists["files"] # <<>>
  /\ disk[fr.output_dir].manifest.lists["images"] # <<>>

\* C3: the step in which the item fetch fails ends the call with the error
\* raised to the caller, the failed fetch being its only remote call, and
\* changes nothing on disk.
C3_FatalItemFetch ==
  [][ (calls = <<>> /\ Len(calls') = 1 /\ calls'[1].res # "ok")
        => /\ calls'[1].cat = "thing"
           /\ pc' = "dt_end"
           /\ ret'.kind = "raise"
           /\ ret'.exc = calls'[1].res
           /\ disk' = disk ]_vars

\* the item fetch failed over a directory that holds an earlier archive
C3_Witness ==
  /\ pc = "dt_end"
  /\ ret.kind = "raise"
  /\ \E d \in DirNames : disk[d].manifest.st = "full" /\ disk[d].docs > 0

\* C4: whenever no process runs (also after an abrupt termination) the
\* Manifest of every directory is absent or a complete document.
C4_ManifestAtomic ==
  pc = "idle" => \A d \in DirNames : disk[d].manifest.st \in {"absent", "full"}

\* download_file is writing the chunks of the file n of category cat
Writing(d, cat, n) ==
  /\ pc = "dt_write"
  /\ fr.output_dir = d
  /\ Categories[fr.c] = cat
  /\ AssetName(cat, fr.lists[cat][fr.i]) = n

\* the step issues a download to the file n of category cat
DownloadIssued(d, cat, n) ==
  /\ Len(calls') = Len(calls) + 1
  /\ fr.output_dir = d
  /\ LET c == calls'[Len(calls')]
     IN  c.op = "download" /\ c.cat = cat /\ AssetName(cat, RemoteList(cat)[c.k]) = n

\* C5: without force, no step downloads to a file that exists under files/
\* or images/, and no step changes its content (the download that is
\* creating a file is the one writer of it).
C5_AssetExistenceSkip ==
  [][ ~proc.force =>
        \A d \in DirNames, cat \in AssetCategories :
          \A n \in NamesOf(cat) :
            (disk[d][cat][n].st # "absent" /\ ~Writing(d, cat, n))
              => /\ disk'[d][cat][n] = disk[d][cat][n]
                 /\ ~DownloadIssued(d, cat, n) ]_vars

\* a run without force is past the loop over the fetched files without a
\* download, the file being there
C5_Witness ==
  /\ ~proc.force
  /\ pc = "dt_get_list"
  /\ fr.c = 2
  /\ fr.lists["files"] # <<>>
  /\ CallsOf("download", "files") = {}
  /\ \E n \in FileNames : disk[fr.output_dir].files[n].st = "full"

\* C6: a call with force that returns has requested every category and has
\* issued a download for every fetched file and image that has a download
\* URL.
C6_ForcedRerun ==
  (pc = "dt_end" /\ proc.force /\ ret.kind = "return") =>
    /\ \A cat \in CategorySet : CallsOf("get", cat) # {}
    /\ \A cat \in AssetCategories :
         \A k \in 1..Len(fr.lists[cat]) :
           AssetUrl(cat, fr.lists[cat][k]) # None
             => \E j \in CallsOf("download", cat) : calls[j].k = k

\* a call with force downloads over a file that exists, the Manifest on disk
\* holding the timestamp of the fetched item
C6_Witness ==
  /\ proc.force
  /\ pc = "dt_asset"
  /\ fr.c = 1
  /\ fr.i = 1
  /\ ManifestOf(fr.thing).st = "full"
  /\ fr.thing.modified # None
  /\ ManifestOf(fr.thing).thing.modified = fr.thing.modified
  /\ disk[fr.output_dir].files[AssetName("files", RemoteFiles[1])].st = "full"

\* C7: outside a download in progress, every file under files/ or images/
\* holds the complete bytes of a download.
C7_AssetIntegrity ==
  \A d \in DirNames, cat \in AssetCategories :
    \A n \in NamesOf(cat) :
      ~Writing(d, cat, n) => disk[d][cat][n].st \in {"absent", "full"}

----------------------------------------------------------------------------
(* Properties of download_user_things, checked under SpecBatch *)

EventsOf(kinds) == SelectSeq(trace, LAMBDA e : e.ev \in kinds)

\* C8: download_user_things never raises once an item was handed to
\* download_thing; when it returns after its loop, download_thing was called
\* once for every listed item in listing order, every call has ended, and the
\* returned list holds, in order, the directory of every call that returned.
C8_BatchFailureIsolation ==
  /\ pc = "du_raise" => EventsOf({"archive"}) = <<>>
  /\ (pc = "du_end" /\ batch.things # <<>>) =>
       LET arch == EventsOf({"archive"})
           ends == EventsOf({"return", "raise"})
           rets == EventsOf({"return"})
       IN  /\ Len(arch) = Len(batch.things)
           /\ \A k \in DOMAIN arch : arch[k].n = batch.things[k]
           /\ Len(ends) = Len(batch.things)
           /\ \A k \in DOMAIN ends : ends[k].n = batch.things[k]
           /\ Len(batch.downloaded) = Len(rets)
           /\ \A k \in DOMAIN rets : batch.downloaded[k] = DirName(rets[k].n)

\* the batch is over: an item failed, a later one was archived
C8_Witness ==
  /\ pc = "du_end"
  /\ \E j, k \in DOMAIN trace :
       /\ j < k
       /\ trace[j].ev = "raise"
       /\ trace[k].ev = "return"
  /\ Len(batch.downloaded) < Len(batch.things)
  /\ batch.downloaded # <<>>

\* the numbers of the pages requested so far
Requested ==
  LET reqs == SelectSeq(pages, LAMBDA e : e.ev = "request")
  IN  [k \in DOMAIN reqs |-> reqs[k].n]

\* the listing is complete
Listed ==
  /\ pc \notin {"idle", "gu_page", "du_raise"}
  /\ proc.mode = "user"
  /\ \A k \in DOMAIN pages : pages[k].ev # "failed"

\* C9: the pages are requested in the order 1, 2, 3, ...; every page before
\* the last requested one was full; when the listing is complete the last
\* requested page is empty or short and the things are those of the
\* requested pages in order. Two full pages and a short one take three
\* requests.
C9_PaginationTermination ==
  /\ Requested = [k \in 1..Len(Requested) |-> k]
  /\ \A k \in 1..(Len(Requested) - 1) :
       Len(ListPage(remote.count, k, per_page)) = per_page
  /\ Listed =>
       /\ Len(ListPage(remote.count, Len(Requested), per_page)) < per_page
       /\ batch.things = [k \in 1..remote.count |-> k]
       /\ remote.count = 2 * per_page + ShortPage => Len(Requested) = 3

\* pages of 30, 30 and a short one were listed in three requests
C9_Witness ==
  /\ Listed
  /\ remote.count = 2 * per_page + ShortPage
  /\ Len(Requested) = 3
  /\ Len(batch.things) = remote.count

\* C10: every sleep lasts the caller's throttle; there is a sleep between two
\* successive page requests and between the end of an item and the start of
\* the next, and none after the last item.
C10_Throttle ==
  /\ \A k \in DOMAIN pages : pages[k].ev = "sleep" => pages[k].n = proc.throttle
  /\ \A k \in DOMAIN trace : trace[k].ev = "sleep" => trace[k].n = proc.throttle
  /\ \A k \in 1..(Len(pages) - 1) :
       ~(pages[k].ev = "request" /\ pages[k + 1].ev = "request")
  /\ \A k \in 1..(Len(trace) - 1) :
       ~(trace[k].ev \in {"return", "raise"} /\ trace[k + 1].ev = "archive")
  /\ (pc = "du_end" /\ trace # <<>>) => trace[Len(trace)].ev # "sleep"

\* C11: every item whose download_thing call has returned in this batch has
\* the Manifest and the documents of that item in its directory: no call
\* short-circuits on, or overwrites, what was written for another item.
C11_DirectoryPerItem ==
  \A k \in DOMAIN trace :
    trace[k].ev = "return" =>
      /\ disk[DirName(trace[k].n)].manifest.thing.id = trace[k].n
      /\ disk[DirName(trace[k].n)].docs = trace[k].n

----------------------------------------------------------------------------
(* Properties of the naming functions, checked under SpecPure *)

\* C12: sanitizing the result of sanitize_filename again, in the same mode,
\* gives that result back.
C12_SanitizerIdempotent ==
  (pure.op = "sanitize" /\ pure.stage = 2) => pure.again = pure.out

\* C13: a result of sanitize_filename, in every mode and also as the name of
\* an output directory, has 200 characters at most.
C13_SanitizerLength ==
  /\ (pure.op \in {"sanitize", "directory"} /\ pure.stage >= 1)
       => Len(pure.out) <= NameLimit
  /\ (pure.op = "sanitize" /\ pure.stage = 2) => Len(pure.again) <= NameLimit

\* a name longer than the limit was cut to the limit
C13_Witness ==
  /\ pure.op = "sanitize"
  /\ pure.stage >= 1
  /\ Len(pure.name) > NameLimit
  /\ Len(pure.out) = NameLimit

\* s ends in suf
EndsWith(s, suf) ==
  /\ Len(s) >= Len(suf)
  /\ SubSeq(s, Len(s) - Len(suf) + 1, Len(s)) = suf

\* s ends in an accepted image extension
AcceptedEnd(s) == \E e \in valid_extensions : EndsWith(s, e)

\* an image round that resolved a download URL
ImageResolved == pure.op = "image" /\ pure.stage = 1 /\ pure.url # None

\* C14: the name given to an image that has a download URL ends in an
\* accepted extension: it is the sanitized name when that ends in one, else
\* the sanitized name with the accepted extension of the URL path (in lower
\* case) appended, else the sanitized name with .jpg appended.
C14_ImageExtension ==
  ImageResolved =>
    LET s == Sanitize(pure.image.name, "image")
        path == Lower(UrlPath(pure.url))
    IN  /\ AcceptedEnd(pure.out)
        /\ IF AcceptedEnd(s) THEN pure.out = s
           ELSE IF AcceptedEnd(path)
                THEN \E e \in valid_extensions :
                       EndsWith(path, e) /\ pure.out = s \o e
                ELSE pure.out = s \o <<".", "j", "p", "g">>

\* the image named Cov with a URL ending in .PNG is named cov.png
C14_Witness ==
  /\ ImageResolved
  /\ pure.image.name = <<"C", "o", "v">>
  /\ pure.url = VariantUrl("display")
  /\ pure.out = <<"c", "o", "v", ".", "p", "n", "g">>

----------------------------------------------------------------------------
(* Further properties of download_user_things, checked under SpecBatch *)

\* a request of the account listing failed in this process
ListingFailed == \E k \in DOMAIN pages : pages[k].ev = "failed"

\* C15: in --user mode a process started without a token exits with code 1
\* before any request, and a process whose account listing failed does not
\* exit with code 0.
C15_ExitCode ==
  [][ /\ (pc = "idle" /\ pc' = "idle" /\ proc'.exit # proc.exit)
           => (proc'.exit = "1" /\ pages' = <<>> /\ trace' = <<>>)
      /\ (pc # "idle" /\ pc' = "idle")
           => (ListingFailed => proc'.exit = "1") ]_vars

----------------------------------------------------------------------------
(* Further properties of download_thing, checked under Spec *)

\* the place of a category in the order of the fetches
CatIndex(cat) == CHOOSE c \in 1..Len(Categories) : Categories[c] = cat

\* the download calls of the current download_thing call that failed
FailedDownloads(cat) == {j \in CallsOf("download", cat) : calls[j].res # "ok"}

\* after a failed download: the call does not raise its error; once the loop
\* of the category is over every later asset with a download URL was
\* requested too, or was passed over because its file exists; the Manifest
\* lists the category as fetched
C16_AfterFailure ==
  \A cat \in AssetCategories :
    \A j \in FailedDownloads(cat) :
      /\ ret.kind = "raise" => ret.exc = "render"
      /\ fr.c > CatIndex(cat) =>
           \A k \in (calls[j].k + 1)..Len(RemoteList(cat)) :
             AssetUrl(cat, RemoteList(cat)[k]) # None =>
               \/ \E d \in CallsOf("download", cat) : calls[d].k = k
               \/ /\ ~proc.force
                  /\ disk[fr.output_dir][cat][AssetName(cat, RemoteList(cat)[k])].st
                       # "absent"
      /\ ManifestWritten =>
           disk[fr.output_dir].manifest.lists[cat]
             = RecordedList(cat, RemoteList(cat))

\* the step is a download that fails: the request is refused, or the stream
\* breaks while the chunks are written
DownloadFails ==
  \/ /\ Len(calls') = Len(calls) + 1
     /\ calls'[Len(calls')].op = "download"
     /\ calls'[Len(calls')].res # "ok"
  \/ /\ pc = "dt_write"
     /\ pc' = "dt_asset"
     /\ \E cat \in AssetCategories :
          \E n \in NamesOf(cat) :
            Writing(fr.output_dir, cat, n) /\ disk'[fr.output_dir][cat][n] = Partial

\* C16: a download that fails leaves the loop at its next round with the
\* fetched lists as they are and nothing raised; and after a failed download
\* the later assets of the list are still attempted, the category is listed
\* in the Manifest as fetched, and download_thing does not raise the error.
C16_AssetFailureIsolation ==
  /\ []C16_AfterFailure
  /\ [][ DownloadFails
           => /\ pc' = "dt_asset"
              /\ fr'.c = fr.c
              /\ fr'.lists = fr.lists
              /\ ret' = ret ]_vars

\* the download of the first file failed, the third file was downloaded, and
\* the Manifest lists the files
C16_Witness ==
  /\ pc = "dt_docs"
  /\ \E j \in FailedDownloads("files") : calls[j].k = 1
  /\ \E d \in CallsOf("download", "files") : calls[d].k = 3 /\ calls[d].res = "ok"
  /\ disk[fr.output_dir].manifest.lists["files"] # <<>>

\* C17: a download_thing call that raised has left the Manifest of its
\* directory as the call found it.
C17_ManifestOnlyOnSuccess ==
  (pc = "dt_end" /\ ret.kind = "raise" /\ fr.output_dir # None)
    => load_existing_metadata(disk[fr.output_dir]) = fr.existing_metadata

----------------------------------------------------------------------------
(* Further properties of the naming functions, checked under SpecPure *)

\* the urls of the size variants of type t of an image that carry one
VariantUrls(img, t) ==
  {img.sizes[k].url :
     k \in {j \in DOMAIN img.sizes : img.sizes[j].type = t /\ img.sizes[j].url # None}}

\* C18: the download URL of an image is the url of a display variant when one
\* carries a url, else of a preview variant, else of a thumb variant, wherever
\* they stand in the list; else the direct url of the record; and the round
\* issues a download exactly when there is a URL.
C18_ImageUrlResolution ==
  (pure.op = "image" /\ pure.stage = 1) =>
    LET img == pure.image
    IN  /\ IF VariantUrls(img, "display") # {}
           THEN pure.url \in VariantUrls(img, "display")
           ELSE IF VariantUrls(img, "preview") # {}
           THEN pure.url \in VariantUrls(img, "preview")
           ELSE IF VariantUrls(img, "thumb") # {}
           THEN pure.url \in VariantUrls(img, "thumb")
           ELSE pure.url = img.url
        /\ pure.issued <=> pure.url # None

\* a thumb variant is listed before a display variant: the display url is
\* the one downloaded
C18_Witness ==
  /\ pure.op = "image"
  /\ pure.stage = 1
  /\ Len(pure.image.sizes) = 2
  /\ pure.image.sizes[1] = [type |-> "thumb", url |-> VariantUrl("thumb")]
  /\ pure.image.sizes[2].type = "display"
  /\ pure.url = VariantUrl("display")
  /\ pure.issued

\* C19: the name of the output directory of an item is never empty.
C19_NonEmptyDirectoryName ==
  (pure.op = "directory" /\ pure.stage = 1) => pure.out # <<>>

----------------------------------------------------------------------------
(* Properties of successive download_thing runs, checked under Spec *)

\* the call found a Manifest with the timestamp of the item it fetched
FoundSameTimestamp ==
  /\ fr.existing_metadata.st = "full"
  /\ fr.thing.modified # None
  /\ fr.existing_metadata.thing.modified = fr.thing.modified

\* C20: the Manifest a call writes holds the item record as fetched, with its
\* 'modified' value, whatever failed in the call; and a call without force
\* that found a Manifest with the timestamp of the fetched item has ended at
\* once: it returned, and the item fetch is its only remote call.
C20_NoRetryWhenUnchanged ==
  /\ ManifestWritten =>
       /\ disk[fr.output_dir].manifest.st = "full"
       /\ disk[fr.output_dir].manifest.thing = fr.thing
  /\ (FoundSameTimestamp /\ ~proc.force) =>
       /\ pc = "dt_end"
       /\ ret.kind = "return"
       /\ Len(calls) = 1
       /\ \A cat \in AssetCategories : CallsOf("download", cat) = {}

\* a run without force has short-circuited while an image that has a
\* download URL is still missing on disk
C20_Witness ==
  /\ pc = "dt_end"
  /\ ~proc.force
  /\ ret.kind = "return"
  /\ Len(calls) = 1
  /\ FoundSameTimestamp
  /\ \E n \in ImageNames : disk[fr.output_dir].images[n].st = "absent"

----------------------------------------------------------------------------
(* Properties of download_thing over a Manifest as found, checked under
   SpecFound *)

\* download_thing is about to load a metadata.json that exists and is no
\* readable JSON document
FindsUnreadable ==
  /\ pc = "dt_prepare"
  /\ disk[safe_name(fr.thing.name)].manifest.st \in {"partial", "undecodable"}

\* C21: a call that finds an unreadable metadata.json neither raises nor
\* returns at that step: it goes on to the fetch of the first category, as a
\* call that finds no metadata.json does.
C21_UnreadableManifest ==
  [][ FindsUnreadable
        => /\ pc' = "dt_get_list"
           /\ ret' = ret
           /\ fr'.c = 1 ]_vars

\* the place of the malformed record in the served list of a category, 0
\* when the list has none
BadIndex(cat) == IF "record" \in faulty /\ cat \in AssetCategories THEN 2 ELSE 0

\* C22: every list of a written Manifest is empty or holds the records of the
\* served list in served order; and once the loop over a list with a
\* malformed record is over, the list of the category is empty, no asset
\* after the malformed record was requested, and every asset downloaded
\* before it is on disk.
C22_CategoryAllOrNothing ==
  /\ ManifestWritten =>
       \A cat \in CategorySet :
         disk[fr.output_dir].manifest.lists[cat]
           \in {<<>>, RecordedList(cat, ServedList(cat))}
  /\ \A cat \in AssetCategories :
       (BadIndex(cat) > 0 /\ fr.c > CatIndex(cat)) =>
         /\ fr.lists[cat] = <<>>
         /\ ManifestWritten => disk[fr.output_dir].manifest.lists[cat] = <<>>
         /\ \A d \in CallsOf("download", cat) :
              /\ calls[d].k < BadIndex(cat)
              /\ calls[d].res = "ok" =>
                   disk[fr.output_dir][cat]
                       [AssetName(cat, ServedList(cat)[calls[d].k])].st # "absent"

\* the Manifest was written with an empty list of files after the first file
\* was downloaded and the second record raised; the other categories are
\* listed
C22_Witness ==
  /\ pc = "dt_docs"
  /\ "record" \in faulty
  /\ disk[fr.output_dir].manifest.lists["files"] = <<>>
  /\ disk[fr.output_dir].manifest.lists["comments"] # <<>>
  /\ \E d \in CallsOf("download", "files") : calls[d].k = 1 /\ calls[d].res = "ok"
  /\ disk[fr.output_dir].files[AssetName("files", RemoteFiles[1])].st = "full"

----------------------------------------------------------------------------
(* The account listing as a whole, checked under SpecBatch *)

\* the answer to the last request of the account listing
LastListing == calls[Len(calls)].res

\* C23: an item is handed to download_thing only when every page of the
\* listing was fetched; after a failed page request no item was archived, the
\* output root is untouched and nothing was collected; download_user_things
\* then returns its empty list when the error is an HTTPError and raises it
\* otherwise.
C23_ListingAllOrNothing ==
  /\ EventsOf({"archive"}) # <<>> =>
       /\ Listed
       /\ batch.things = [k \in 1..remote.count |-> k]
       /\ Len(ListPage(remote.count, Len(Requested), per_page)) < per_page
  /\ pc = "gu_page" => trace = <<>>
  /\ ListingFailed =>
       /\ trace = <<>>
       /\ \A d \in DirNames : disk[d] = EmptyDir
       /\ batch.things = <<>>
       /\ batch.downloaded = <<>>
       /\ pc \in {"du_end", "du_raise"}
       /\ pc = "du_end" <=> LastListing = "http"
       /\ pc = "du_raise" <=> LastListing = "conn"

\* the first page was listed in full, the request of the second met an
\* HTTPError, and download_user_things has returned
C23_Witness ==
  /\ pc = "du_end"
  /\ ListingFailed
  /\ Len(Requested) = 2
  /\ remote.count >= per_page
  /\ LastListing = "http"
  /\ batch.downloaded = <<>>

----------------------------------------------------------------------------
(* Assets of one list with the same name on disk, checked under Spec *)

\* the assets of a category that are downloaded to the name n
SharingName(cat, n) ==
  {i \in DOMAIN RemoteList(cat) :
     /\ AssetUrl(cat, RemoteList(cat)[i]) # None
     /\ AssetName(cat, RemoteList(cat)[i]) = n}

\* the download calls of the current download_thing call to the name n
DownloadsTo(cat, n) ==
  {d \in CallsOf("download", cat) : calls[d].k \in SharingName(cat, n)}

\* those that wrote all their bytes
CompletedTo(cat, n) ==
  {d \in DownloadsTo(cat, n) :
     calls[d].res = "ok" /\ ~(pc = "dt_write" /\ d = Len(calls))}

\* without force a download to a shared name follows only downloads that
\* left no file
C24_FirstOnly ==
  \A cat \in AssetCategories :
    \A n \in NamesOf(cat) :
      ~proc.force =>
        \A d, e \in DownloadsTo(cat, n) : d < e => calls[d].res = "http"

\* with force, once the loop of the category is over, every asset of a
\* fetched list that shares a name was downloaded, in list order
C24_EachInOrder ==
  \A cat \in AssetCategories :
    \A n \in NamesOf(cat) :
      (proc.force /\ fr.c > CatIndex(cat) /\ fr.lists[cat] # <<>>) =>
        /\ \A i \in SharingName(cat, n) :
             \E d \in DownloadsTo(cat, n) : calls[d].k = i
        /\ \A d, e \in DownloadsTo(cat, n) : d < e => calls[d].k < calls[e].k

\* with force, outside a download in progress, a shared name holds the bytes
\* of the last download of the call that wrote all of them
C24_LastSuccessful ==
  \A cat \in AssetCategories :
    \A n \in NamesOf(cat) :
      (proc.force /\ Cardinality(SharingName(cat, n)) > 1 /\ pc # "dt_write"
         /\ CompletedTo(cat, n) # {}) =>
        LET last == CHOOSE d \in CompletedTo(cat, n) :
                      \A e \in CompletedTo(cat, n) : e <= d
        IN  disk[fr.output_dir][cat][n] = Full(calls[last].k)

\* the Manifest lists every record of a fetched list, those sharing a name
\* included
C24_AllListed ==
  \A cat \in AssetCategories :
    (ManifestWritten /\ ~FetchFailed(cat)) =>
      Len(disk[fr.output_dir].manifest.lists[cat]) = Len(RemoteList(cat))

\* C24: for assets of one list that share a name on disk: without force only
\* the first download that leaves a file is made and the later assets are
\* passed over; with force each is downloaded in list order and the name
\* holds the bytes of the last download that succeeded; the Manifest lists
\* every record.
C24_NameCollision ==
  /\ C24_FirstOnly
  /\ C24_EachInOrder
  /\ C24_LastSuccessful
  /\ C24_AllListed

====
